---- MODULE Spec2Model ----
(***************************************************************************)
(* Model of go-server-push: the Link-header push decorator                 *)
(* (pushResponseWriter), its Link field parser (pushLink), the bloom       *)
(* filter memory carried in a cookie, and the wrapped http.ResponseWriter. *)
(*                                                                         *)
(* Strings are sequences of one-character strings, so that splitting,      *)
(* indexing and slicing are computed as the code computes them.            *)
(***************************************************************************)
EXTENDS Integers, Sequences, FiniteSets, TLC

\* ------------------------------------------------------------- bounds --
\* Longest Link list a handler sets on one response.
MaxLinks == 3
\* Responses served to the one client of the model.
MaxResponses == 2
\* Calls the inner handler makes on the response writer per response.
MaxCalls == 2
\* Attribute tokens after the path token of a generated Link field.
MaxAttrs == 2
\* The handler's configured bloom parameters (New(m, k, ...)).
BloomM == 6
BloomK == 2
\* Longest Link list of a response explored with an unusual response object,
\* configuration or request.
MaxLinksNarrow == 1

\* ----------------------------------------------------------- strings --
StatusOK == 200
StatusNotModified == 304
StatusFound == 302
\* Redirect statuses are those from RedirectLow up to, not including, RedirectHigh.
RedirectLow == 300
RedirectHigh == 400

Range(s) == {s[i] : i \in 1..Len(s)}

\* The literals pushLink compares attribute tokens with.
RelPreload == <<"r","e","l","=","p","r","e","l","o","a","d">>
RelPreloadQuoted == <<"r","e","l","=","\"","p","r","e","l","o","a","d","\"">>
NoPushToken == <<"n","o","p","u","s","h">>

\* unicode.IsSpace, on the white space the model's inputs use.
IsSpace(c) == c \in {" ", "\t", "\n"}

isFieldSeparator(c) == c = ";" \/ IsSpace(c)

\* strings.FieldsFunc(s, isFieldSeparator): the maximal runs of characters
\* that are not separators, in order; empty runs are dropped.  FieldsStep
\* is one turn of its loop over the characters; the loop over s[lo..hi] is
\* run by halving the range, the state being evaluated (the Len test)
\* before a half is entered, which keeps the evaluation shallow.
FieldsStep(st, c) ==
    IF isFieldSeparator(c)
    THEN [cur |-> <<>>, acc |-> IF st.cur = <<>> THEN st.acc ELSE Append(st.acc, st.cur)]
    ELSE [cur |-> Append(st.cur, c), acc |-> st.acc]

RECURSIVE FieldsLoop(_, _, _, _)
FieldsLoop(s, lo, hi, st) ==
    IF lo > hi \/ Len(st.acc) < 0 THEN st
    ELSE IF lo = hi THEN FieldsStep(st, s[lo])
    ELSE LET mid == (lo + hi) \div 2
             left == FieldsLoop(s, lo, mid, st)
         IN  FieldsLoop(s, mid + 1, hi, left)

FieldsFunc(s) ==
    LET st == FieldsLoop(s, 1, Len(s), [cur |-> <<>>, acc |-> <<>>])
    IN  IF st.cur = <<>> THEN st.acc ELSE Append(st.acc, st.cur)

\* ------------------------------------------------------ bloom filter --
\* A filter is its parameters and the set of bits that are set.  NilBloom
\* is the decorator's field before loadBloomFilter ran (w.bloom == nil).
NilBloom == [m |-> 0, k |-> 0, bits |-> {}]

NewBloom(m, k) == [m |-> m, k |-> k, bits |-> {}]

CharCode(c) ==
    CASE c = "/" -> 1
      [] c = "a" -> 2
      [] c = "b" -> 3
      [] c = "c" -> 5
      [] OTHER -> 7

RECURSIVE StrSum(_, _)
StrSum(s, i) == IF i > Len(s) THEN 0 ELSE CharCode(s[i]) * i + StrSum(s, i + 1)

\* The k bit locations of a key: base hash plus i times a second hash,
\* reduced modulo m.
Locations(bl, path) ==
    LET h == StrSum(path, 1)
    IN  {(h + i * (1 + (h % 3))) % bl.m : i \in 0..(bl.k - 1)}

TestString(bl, path) == Locations(bl, path) \subseteq bl.bits

AddString(bl, path) == [bl EXCEPT !.bits = @ \cup Locations(bl, path)]

\* ------------------------------------------------------- state codec --
\* The cookie value: the filter's m, k and its bits (WriteTo), compressed
\* and base64 encoded.  The compression and the text encoding are kept as
\* the sequence they carry; a value that is cut short or whose bit count
\* does not match its header does not decode.
NoCookie == <<>>

\* The bits are written one position off.
EncodeBloomShifted(bl) ==
    <<bl.m, bl.k>> \o [i \in 1..bl.m |-> IF i \in bl.bits THEN 1 ELSE 0]

EncodeBloom(bl) ==
    <<bl.m, bl.k>> \o [i \in 1..bl.m |-> IF (i - 1) \in bl.bits THEN 1 ELSE 0]

DecodeOK(v) ==
    /\ Len(v) >= 3
    /\ v[1] >= 1
    /\ v[2] >= 1
    /\ Len(v) = v[1] + 2
    /\ \A i \in 3..Len(v) : v[i] \in {0, 1}

DecodeBloom(v) ==
    [m |-> v[1], k |-> v[2], bits |-> {i \in 0..(v[1] - 1) : v[i + 3] = 1}]

\* A value that does not decode leaves the filter as far as it was read.
loadBloomFilterKeepPartial(cookie) ==
    IF cookie = NoCookie THEN NewBloom(BloomM, BloomK)
    ELSE IF DecodeOK(cookie) THEN DecodeBloom(cookie)
    ELSE [m |-> BloomM, k |-> BloomK,
          bits |-> {i \in 0..(BloomM - 1) : i + 3 <= Len(cookie) /\ cookie[i + 3] = 1}]

\* The cookie is never read: every response starts from an empty filter.
loadBloomFilterFresh(cookie) == NewBloom(BloomM, BloomK)

\* loadBloomFilter: a missing or empty cookie, or one that does not decode,
\* gives a fresh filter with the configured parameters.
loadBloomFilter(cookie) ==
    IF cookie = NoCookie THEN NewBloom(BloomM, BloomK)
    ELSE IF DecodeOK(cookie) THEN DecodeBloom(cookie)
    ELSE NewBloom(BloomM, BloomK)

\* ----------------------------------------------------------- pushLink --
\* The attribute loop: "nopush" returns at once, rel=preload (bare or
\* quoted) sets isPreload.
\* A loop that stops at rel=preload and so misses a nopush after it.
RECURSIVE ScanFieldsStopAtPreload(_, _, _)
ScanFieldsStopAtPreload(fields, i, isPreload) ==
    IF i > Len(fields)
    THEN IF isPreload THEN "preload" ELSE "none"
    ELSE IF fields[i] = RelPreload \/ fields[i] = RelPreloadQuoted
         THEN "preload"
         ELSE IF fields[i] = NoPushToken
              THEN "nopush"
              ELSE ScanFieldsStopAtPreload(fields, i + 1, isPreload)

RECURSIVE ScanFields(_, _, _)
ScanFields(fields, i, isPreload) ==
    IF i > Len(fields)
    THEN IF isPreload THEN "preload" ELSE "none"
    ELSE IF fields[i] = RelPreload \/ fields[i] = RelPreloadQuoted
         THEN ScanFields(fields, i + 1, TRUE)
         ELSE IF fields[i] = NoPushToken
              THEN "nopush"
              ELSE ScanFields(fields, i + 1, isPreload)

\* The shape test without the check for a doubled slash.
PathShapeNoDoubleSlashCheck(path) ==
    ~ ( \/ Len(path) < 4
        \/ path[1] # "<"
        \/ path[2] # "/"
        \/ path[Len(path)] # ">" )

PathShapeOK(path) ==
    ~ ( \/ Len(path) < 4
        \/ path[1] # "<"
        \/ path[2] # "/"
        \/ path[3] = "/"
        \/ path[Len(path)] # ">" )

NotPushed(bl, kind) ==
    [bloom |-> bl, pushed |-> FALSE, err |-> "nil", attempted |-> FALSE,
     target |-> <<>>, kind |-> kind]

\* A failed push whose path is recorded all the same.
TestAndPushAddOnErr(b1, target, res) ==
    IF TestString(b1, target)
    THEN [bloom |-> b1, pushed |-> FALSE, err |-> "nil", attempted |-> FALSE,
          target |-> target, kind |-> "member"]
    ELSE IF res # "ok"
         THEN [bloom |-> AddString(b1, target), pushed |-> FALSE, err |-> res,
               attempted |-> TRUE, target |-> target, kind |-> res]
         ELSE [bloom |-> AddString(b1, target), pushed |-> TRUE, err |-> "nil",
               attempted |-> TRUE, target |-> target, kind |-> "ok"]

\* The membership test and the push of an eligible link: a path that tests
\* positive is not pushed; a failed push leaves the filter alone; a push
\* that succeeded adds the path.
TestAndPush(b1, target, res) ==
    IF TestString(b1, target)
    THEN [bloom |-> b1, pushed |-> FALSE, err |-> "nil", attempted |-> FALSE,
          target |-> target, kind |-> "member"]
    ELSE IF res # "ok"
         THEN [bloom |-> b1, pushed |-> FALSE, err |-> res, attempted |-> TRUE,
               target |-> target, kind |-> res]
         ELSE [bloom |-> AddString(b1, target), pushed |-> TRUE, err |-> "nil",
               attempted |-> TRUE, target |-> target, kind |-> "ok"]

\* The parsing half of pushLink: whether the field is a push candidate,
\* and the path to push (the first token without its angle brackets).
Candidate(link) ==
    LET fields == FieldsFunc(link)
    IN  IF Len(fields) < 2 THEN [ok |-> FALSE, target |-> <<>>]
        ELSE IF ~PathShapeOK(fields[1]) THEN [ok |-> FALSE, target |-> <<>>]
        ELSE IF ScanFields(fields, 2, FALSE) # "preload" THEN [ok |-> FALSE, target |-> <<>>]
        ELSE [ok |-> TRUE, target |-> SubSeq(fields[1], 2, Len(fields[1]) - 1)]

\* The filter is loaded for every eligible link.
NeedsLoadAlways(bl) == TRUE

\* if w.bloom == nil { w.loadBloomFilter() }
NeedsLoad(bl) == bl = NilBloom

\* The rest of pushLink, for a parsed field: the filter is loaded on first
\* use, tested, and the path pushed.
pushParsed(bl, cookie, cand, res) ==
    IF ~cand.ok THEN NotPushed(bl, "skip")
    ELSE LET b1 == IF NeedsLoad(bl) THEN loadBloomFilter(cookie) ELSE bl
         IN  TestAndPush(b1, cand.target, res)

\* pushLink(opts, link) on a decorator whose filter is bl and whose request
\* carries cookie; res is what Push returns if it is called.
pushLink(bl, cookie, link, res) == pushParsed(bl, cookie, Candidate(link), res)

\* ---------------------------------------------------------- ParseList --
\* header.ParseList(h, "Link"): every value of the header is cut at the
\* commas outside quoted strings, white space around an element is
\* trimmed and empty elements are dropped.  begin and end are the 0-based
\* bounds of the element being read, as in the library.
IsListSpace(c) == c \in {" ", "\t", "\r", "\n"}

\* One turn of the loop over the bytes of a value: i is the 0-based index
\* of byte b.
ListStep(s, st, i, b) ==
    IF st.escape THEN [st EXCEPT !.escape = FALSE, !.end = i + 1]
    ELSE IF st.quote
         THEN [st EXCEPT !.escape = (b = "\\"), !.quote = (b # "\""), !.end = i + 1]
    ELSE IF b = "\"" THEN [st EXCEPT !.quote = TRUE, !.end = i + 1]
    ELSE IF IsListSpace(b)
         THEN IF st.begin = st.end
              THEN [st EXCEPT !.begin = i + 1, !.end = i + 1]
              ELSE st
    ELSE IF b = ","
         THEN [st EXCEPT !.begin = i + 1, !.end = i + 1,
                         !.acc = IF st.begin < st.end
                                 THEN Append(@, SubSeq(s, st.begin + 1, st.end))
                                 ELSE @]
    ELSE [st EXCEPT !.end = i + 1]

RECURSIVE ListLoop(_, _, _, _)
ListLoop(s, lo, hi, st) ==
    IF lo > hi \/ Len(st.acc) < 0 THEN st
    ELSE IF lo = hi THEN ListStep(s, st, lo, s[lo + 1])
    ELSE LET mid == (lo + hi) \div 2
             left == ListLoop(s, lo, mid, st)
         IN  ListLoop(s, mid + 1, hi, left)

ParseValue(s, acc) ==
    LET st == ListLoop(s, 0, Len(s) - 1,
                       [begin |-> 0, end |-> 0, escape |-> FALSE, quote |-> FALSE,
                        acc |-> acc])
    IN  IF st.begin < st.end THEN Append(st.acc, SubSeq(s, st.begin + 1, st.end))
        ELSE st.acc

RECURSIVE ParseFrom(_, _, _)
ParseFrom(values, j, acc) ==
    IF j > Len(values) THEN acc
    ELSE ParseFrom(values, j + 1, ParseValue(values[j], acc))

ParseList(values) == ParseFrom(values, 1, <<>>)

\* ------------------------------------------------------------- inputs --
\* The Link fields a handler of the model sets:
\*   </a>; rel=preload          </b>;rel="preload"
\*   </c>; rel=preload; nopush  <//e>; rel=preload
LinkA == <<"<","/","a",">",";"," ">> \o RelPreload
LinkB == <<"<","/","b",">",";">> \o RelPreloadQuoted
LinkN == <<"<","/","c",">",";"," ">> \o RelPreload \o <<";"," ">> \o NoPushToken
LinkX == <<"<","/","/","e",">",";"," ">> \o RelPreload

Catalog == {LinkA, LinkB, LinkN, LinkX}

LinkLists == UNION {[1..n -> Catalog] : n \in 0..MaxLinks}

\* One header value holding all the fields, separated by ", ".
RECURSIVE JoinComma(_, _)
JoinComma(links, i) ==
    IF i > Len(links) THEN <<>>
    ELSE IF i = Len(links) THEN links[i]
    ELSE links[i] \o <<",", " ">> \o JoinComma(links, i + 1)

\* What Push returns when it is called.
PushResults == {"ok", "unsupported", "err"}

\* Cookie values a client may send that no response of the handler set:
\* one cut short, and one well-formed filter of other parameters whose
\* only bit is set.
ForeignCookies == {<<BloomM, BloomK, 1>>, <<1, 1, 1>>}

Codes == {StatusOK, StatusNotModified}

\* ------------------------------------------------------ push headers --
sentinelHeader == "X-H2-Push"

proxyHeaders == <<"Accept-Encoding", "Accept-Language", "Cache-Control", "User-Agent">>

\* A header map is a function from names to value lists.
NoHeader == [k \in {} |-> <<>>]

\* h[k] = v
SetKey(h, k, v) == [x \in DOMAIN h \cup {k} |-> IF x = k THEN v ELSE h[x]]

\* r.Header[k]: the nil slice when the request has no such header.
Lookup(r, k) == IF k \in DOMAIN r THEN r[k] ELSE <<>>

\* for _, k := range proxyHeaders { h[k] = r.Header[k] }
RECURSIVE CopyProxied(_, _, _)
CopyProxied(h, r, i) ==
    IF i > Len(proxyHeaders) THEN h
    ELSE CopyProxied(SetKey(h, proxyHeaders[i], Lookup(r, proxyHeaders[i])), r, i + 1)

\* for k, v := range opts.Header { h[k] = v }, on top of h.
CopyConfigured(h, optsH) ==
    [x \in DOMAIN h \cup DOMAIN optsH |-> IF x \in DOMAIN optsH THEN optsH[x] ELSE h[x]]

\* The configured headers are copied last and so win over the sentinel.
headersConfiguredLast(optsH, r) ==
    CopyConfigured(SetKey(CopyProxied(NoHeader, r, 1), sentinelHeader, <<"1">>), optsH)

\* headers(opts, r): the configured headers, then the proxied request
\* headers, then the sentinel.
headers(optsH, r) ==
    SetKey(CopyProxied(CopyConfigured(NoHeader, optsH), r, 1), sentinelHeader, <<"1">>)

\* IsPush(r)
IsPush(rHeader) == sentinelHeader \in DOMAIN rHeader

\* Header sets a handler may be configured with: none, one harmless
\* header, and one that names a proxied header and the sentinel.
ConfigPlain == "X-Extra" :> <<"e">>

ConfigHostile ==
    ("X-Extra" :> <<"e">>) @@ ("User-Agent" :> <<"cfg">>) @@ (sentinelHeader :> <<"0">>)

ConfigHeaders == {NoHeader, ConfigPlain, ConfigHostile}

\* Headers of a triggering request: all four proxied headers and one
\* more, or the user agent alone.
RequestFull ==
    ("Accept-Encoding" :> <<"gzip">>) @@ ("Accept-Language" :> <<"en">>)
        @@ ("Cache-Control" :> <<"no-cache">>) @@ ("User-Agent" :> <<"ua">>)
        @@ ("Cookie" :> <<"c">>)

RequestPartial == "User-Agent" :> <<"ua2">>

RequestHeaders == {RequestFull, RequestPartial}

\* ------------------------------------------------------- capabilities --
\* The optional interfaces of the response object a handler is given.
AllCaps == {"push", "flush", "closenotify", "stringwrite"}

CapSets == SUBSET AllCaps

\* Every request is given the close-notify variant of the decorator.
WrapAlwaysCloseNotify(caps) ==
    IF "push" \notin caps THEN "original" ELSE "closeNotifyDecorator"

\* A response object that is no Pusher is wrapped all the same.
WrapWithoutPusherTest(caps) ==
    IF "closenotify" \in caps THEN "closeNotifyDecorator" ELSE "decorator"

\* ServeHTTP: which object the inner handler is given.
Wrap(caps) ==
    IF "push" \notin caps THEN "original"
    ELSE IF "closenotify" \in caps THEN "closeNotifyDecorator"
    ELSE "decorator"

\* The interfaces of the object the inner handler is given: the decorator
\* has the methods Push, Flush and WriteString, and its close-notify
\* variant CloseNotify as well.
Exposes(rw, caps) ==
    IF rw = "original" THEN caps
    ELSE IF rw = "closeNotifyDecorator" THEN {"push", "flush", "stringwrite", "closenotify"}
    ELSE {"push", "flush", "stringwrite"}

\* Response objects other than the full one, and handler configurations
\* and request headers other than the usual ones, are explored on
\* responses of at most MaxLinksNarrow Link fields, one of them at a time.
Usual(c, oh, rh) == <<c, oh, rh>> = <<AllCaps, ConfigHostile, RequestFull>>

InScope(links, c, oh, rh) ==
    \/ Usual(c, oh, rh)
    \/ /\ Len(links) <= MaxLinksNarrow
       /\ \/ (oh = ConfigHostile /\ rh = RequestFull)
          \/ (c = AllCaps /\ rh = RequestFull)
          \/ (c = AllCaps /\ oh = ConfigHostile)

\* -------------------------------------------------------------- state --
VARIABLES
    phase,        \* "idle" between requests, "serving" while the handler runs
    nresp,        \* requests started so far
    reqCookie,    \* value of the memory cookie the request carries
    hLink,        \* w.Header()["Link"]
    hPushed,      \* w.Header()[pushedHeader]
    hCookies,     \* Set-Cookie values added by http.SetCookie
    wroteHeader,  \* pushResponseWriter.wroteHeader
    bloom,        \* pushResponseWriter.bloom
    sent,         \* what the wrapped writer committed: status and headers
    log,          \* push attempts and the physical header commit, in order
    ncalls,       \* calls the handler made on the response writer
    fwd,          \* status codes passed to the wrapped writer's WriteHeader
    runs,         \* times the Link walk of WriteHeader ran
    links0,       \* the Link fields the handler set, in order
    outcome,      \* per field of links0: what the walk did with it
    pushedIdx,    \* positions of links0 appended to pushed
    encFailed,    \* saveBloomFilter returned an error
    faults,       \* whether writing the encoded cookie may fail
    lastCookie,   \* the memory cookie most recently set by a response
    honest,       \* every request so far carried lastCookie
    pushedEver,   \* per target: successful pushes over all responses
    parse,        \* input and result of a single pushLink call
    caps,         \* interfaces of the response object given to ServeHTTP
    rw,           \* the object the inner handler is given
    optsHeader,   \* PushOptions.Header the handler was configured with
    reqHeader,    \* headers of the request being served
    whCodes,      \* status codes the handler passed to the decorator's WriteHeader
    subreq,       \* push sub-requests issued for this response
    rReq,         \* redirectResponseWriter.req is not nil
    hLocation,    \* w.Header()["Location"]
    codec,        \* a filter, the cookie value saved from it and the filter loaded back
    loads,        \* calls of loadBloomFilter made for this response
    optsCookie,   \* Value of the cookie template options.cookie points to
    flateReaderPool,  \* decompressors in the pool
    flateWriterPool,  \* compressors in the pool
    bufferPool,   \* buffers in the pool
    heap,         \* the decompressors, compressors and buffers allocated so far
    gor           \* per goroutine: where its request is in loading and saving

vars == <<phase, nresp, reqCookie, hLink, hPushed, hCookies, wroteHeader,
          bloom, sent, log, ncalls, fwd, runs, links0, outcome, pushedIdx,
          encFailed, faults, lastCookie, honest, pushedEver, parse,
          caps, rw, optsHeader, reqHeader, whCodes, subreq, rReq, hLocation,
          codec, loads, optsCookie, flateReaderPool, flateWriterPool, bufferPool,
          heap, gor>>

\* The scratch pools, their objects and the goroutines that use them.
poolVars == <<flateReaderPool, flateWriterPool, bufferPool, heap, gor>>

\* What ServeHTTP fixes for one response.
respVars == <<caps, rw, optsHeader, reqHeader>>

NotSent == [code |-> 0, link |-> <<>>, pushed |-> <<>>, cookies |-> <<>>]

ParseIdle == [link |-> <<>>, tokens |-> <<>>, bloom |-> NilBloom, done |-> FALSE,
              attempted |-> FALSE, target |-> <<>>, pushed |-> FALSE,
              after |-> NilBloom]

\* The target a Link field names, when its first token has the shape.
TargetOf(link) ==
    LET f == FieldsFunc(link)
    IN  IF Len(f) >= 1 /\ Len(f[1]) >= 2 THEN SubSeq(f[1], 2, Len(f[1]) - 1) ELSE <<>>

Targets == {TargetOf(l) : l \in Catalog}

\* ---------------------------------------------------- wrapped writer --
\* The wrapped http.ResponseWriter commits status and a snapshot of the
\* header map on its first WriteHeader; later calls change nothing.
UnderWriteHeader(s, code, l, p, c) ==
    IF s.code = 0 THEN [code |-> code, link |-> l, pushed |-> p, cookies |-> c] ELSE s

HdrEvent(s) == IF s.code = 0 THEN <<[ev |-> "hdr", target |-> <<>>]>> ELSE <<>>

PushEvents(attempts) == [i \in 1..Len(attempts) |-> [ev |-> "push", target |-> attempts[i]]]

\* --------------------------------------------------------- WriteHeader --
\* The guard without the wroteHeader test.
SkipOnlyNotModified(wrote, code) == code = StatusNotModified

\* The guard without the status test.
SkipOnlyWroteHeader(wrote, code) == wrote

\* if wroteHeader || code == http.StatusNotModified: forward only.
SkipOrchestration(wrote, code) == wrote \/ code = StatusNotModified

\* A link that was not pushed is dropped instead of kept.
KeepLinkDropped(st, link) == st

\* rest = append(rest, link): rest shares the array of links.
KeepLink(st, link) == [st EXCEPT !.arr[st.n + 1] = link, !.n = st.n + 1]

\* The pushed link is put in front of the list.
RecordPushedFront(st, link, i) ==
    [st EXCEPT !.pushed = <<link>> \o @, !.pushedIdx = <<i>> \o @]

\* pushed = append(pushed, link)
RecordPushed(st, link, i) ==
    [st EXCEPT !.pushed = Append(@, link), !.pushedIdx = Append(@, i)]

\* The walk stops but rest stays the links kept so far.
RestKeptSoFar(st) == [st EXCEPT !.halted = TRUE]

\* rest = links; break
RestOnUnsupported(st) == [st EXCEPT !.n = Len(st.arr), !.halted = TRUE]

\* for _, link := range links { ... }: st.arr is the array of links, whose
\* first st.n elements are rest.  cands holds the parse of each field of
\* the list as it was before the loop; an element the loop has overwritten
\* before reading it is parsed again.
RECURSIVE RangeLinks(_, _, _, _, _, _)
RangeLinks(st, i, links, cands, cookie, outs) ==
    IF i > Len(st.arr) THEN st
    ELSE LET link == st.arr[i]
             r == IF link = links[i]
                  THEN pushParsed(st.bloom, cookie, cands[i], outs[i])
                  ELSE pushLink(st.bloom, cookie, link, outs[i])
             st1 == [st EXCEPT !.bloom = r.bloom,
                               !.outcome[i] = r.kind,
                               !.loads = IF r.kind # "skip" /\ NeedsLoad(st.bloom)
                                         THEN @ + 1 ELSE @,
                               !.attempts = IF r.attempted THEN Append(@, r.target) ELSE @,
                               !.oks = IF r.pushed THEN Append(@, r.target) ELSE @]
         IN  IF r.err = "unsupported" THEN RestOnUnsupported(st1)
             ELSE IF r.pushed
                  THEN RangeLinks(RecordPushed(st1, link, i), i + 1, links, cands, cookie, outs)
                  ELSE RangeLinks(KeepLink(st1, link), i + 1, links, cands, cookie, outs)

WalkLinks(links, cands, cookie, bl, outs) ==
    RangeLinks([arr |-> links, n |-> 0, pushed |-> <<>>, pushedIdx |-> <<>>,
                bloom |-> bl, outcome |-> [i \in 1..Len(links) |-> "none"],
                attempts |-> <<>>, oks |-> <<>>, halted |-> FALSE, loads |-> 0],
               1, links, cands, cookie, outs)

\* The filter is saved whether or not anything was pushed.
ShouldSaveAlways(pushed) == TRUE

\* if len(pushed) != 0 { saveBloomFilter() }
ShouldSave(pushed) == Len(pushed) # 0

\* saveBloomFilter: the cookie template with the encoded filter as value
\* is added to the response, unless writing the encoding failed.
saveBloomFilter(cookies, bl, encErr) ==
    IF encErr THEN cookies ELSE Append(cookies, EncodeBloom(bl))

RECURSIVE CountUp(_, _, _)
CountUp(f, oks, i) ==
    IF i > Len(oks) THEN f
    ELSE CountUp([f EXCEPT ![oks[i]] = @ + 1], oks, i + 1)

\* opts points to the handler's options and h is their header map.
PushOptionsShared(optsH, h) == h

\* opts := w.opts.pushOptions; opts.Header = headers(&opts, w.req): opts is
\* a copy and h a map of its own, so the handler's options keep their
\* header map.
PushOptionsAfter(optsH, h) == optsH

\* c := *w.opts.cookie; c.Value = buf.String(): c is a copy, so the
\* template keeps its Value.
CookieTemplateAfter(tmpl, value) == tmpl

\* The save has failed: the header is never forwarded.
AfterSaveStopOnError(f, code, failed) == IF failed THEN f ELSE Append(f, code)

\* An error of saveBloomFilter is logged, and WriteHeader goes on to
\* w.ResponseWriter.WriteHeader(code).
AfterSave(f, code, failed) == Append(f, code)

\* The sub-requests of the push attempts of one WriteHeader call: all carry
\* the header map built once before the loop.
SubRequests(attempts, header) ==
    [i \in 1..Len(attempts) |-> [target |-> attempts[i], header |-> header]]

Forward(code) ==
    /\ fwd' = Append(fwd, code)
    /\ sent' = UnderWriteHeader(sent, code, hLink, hPushed, hCookies)
    /\ log' = log \o HdrEvent(sent)
    /\ UNCHANGED <<hLink, hPushed, hCookies, bloom, runs, outcome, pushedIdx,
                   encFailed, lastCookie, pushedEver, subreq, loads, optsCookie,
                   optsHeader>>

Orchestrate(code, links) ==
    LET cands == [i \in 1..Len(links) |-> Candidate(links[i])] IN
    \E st \in {WalkLinks(links, cands, reqCookie, bloom, outs) :
                   outs \in [1..Len(links) -> PushResults]} :
    \E encErr \in (IF faults THEN BOOLEAN ELSE {FALSE}) :
        LET rest == SubSeq(st.arr, 1, st.n)
            save == ShouldSave(st.pushed)
            cookies == IF save THEN saveBloomFilter(hCookies, st.bloom, encErr)
                       ELSE hCookies
        IN  /\ hLink' = rest
            /\ hPushed' = st.pushed
            /\ hCookies' = cookies
            /\ bloom' = st.bloom
            /\ runs' = runs + 1
            /\ outcome' = st.outcome
            /\ pushedIdx' = st.pushedIdx
            /\ encFailed' = (save /\ encErr)
            /\ lastCookie' = IF cookies # hCookies THEN cookies[Len(cookies)]
                             ELSE lastCookie
            /\ pushedEver' = CountUp(pushedEver, st.oks, 1)
            /\ subreq' = subreq \o SubRequests(st.attempts, headers(optsHeader, reqHeader))
            /\ optsHeader' = PushOptionsAfter(optsHeader, headers(optsHeader, reqHeader))
            /\ loads' = loads + st.loads
            /\ optsCookie' = IF cookies # hCookies
                              THEN CookieTemplateAfter(optsCookie, cookies[Len(cookies)])
                              ELSE optsCookie
            /\ fwd' = AfterSave(fwd, code, save /\ encErr)
            /\ sent' = UnderWriteHeader(sent, code, rest, st.pushed, cookies)
            /\ log' = log \o PushEvents(st.attempts) \o HdrEvent(sent)

\* WriteHeader on the response object itself, when ServeHTTP did not wrap
\* it: the wrapped writer's own method.
RawWriteHeader(code) ==
    /\ fwd' = Append(fwd, code)
    /\ sent' = UnderWriteHeader(sent, code, hLink, hPushed, hCookies)
    /\ log' = log \o HdrEvent(sent)

WriteHeader(code) ==
    /\ phase = "serving"
    /\ ncalls < MaxCalls
    /\ ncalls' = ncalls + 1
    /\ IF rw = "original"
       THEN /\ RawWriteHeader(code)
            /\ UNCHANGED <<wroteHeader, whCodes, hLink, hPushed, hCookies, bloom,
                           runs, outcome, pushedIdx, encFailed, lastCookie,
                           pushedEver, subreq, loads, optsCookie, optsHeader>>
       ELSE /\ wroteHeader' = TRUE
            /\ whCodes' = Append(whCodes, code)
            /\ IF SkipOrchestration(wroteHeader, code)
               THEN Forward(code)
               ELSE LET links == ParseList(hLink)
                    IN  IF Len(links) = 0 THEN Forward(code) ELSE Orchestrate(code, links)
    /\ UNCHANGED <<phase, nresp, reqCookie, links0, faults, honest, parse,
                   caps, rw, reqHeader, rReq, hLocation, codec, poolVars>>

\* Write is promoted from the embedded http.ResponseWriter: it reaches the
\* wrapped writer, which commits status 200 and the headers as they are
\* if no header was committed yet.
ImplicitHeader ==
    /\ sent' = UnderWriteHeader(sent, StatusOK, hLink, hPushed, hCookies)
    /\ log' = log \o HdrEvent(sent)
    /\ UNCHANGED <<phase, nresp, reqCookie, hLink, hPushed, hCookies, wroteHeader,
                   bloom, fwd, runs, links0, outcome, pushedIdx, encFailed,
                   faults, lastCookie, honest, pushedEver, parse,
                   respVars, whCodes, subreq, rReq, hLocation, codec, loads, optsCookie, poolVars>>

\* A call that reaches nothing: the header stays uncommitted.
NoEffect ==
    UNCHANGED <<phase, nresp, reqCookie, hLink, hPushed, hCookies, wroteHeader,
                bloom, sent, log, fwd, runs, links0, outcome, pushedIdx, encFailed,
                faults, lastCookie, honest, pushedEver, parse,
                respVars, whCodes, subreq, rReq, hLocation, codec, loads, optsCookie, poolVars>>

Write ==
    /\ phase = "serving"
    /\ ncalls < MaxCalls
    /\ ncalls' = ncalls + 1
    /\ ImplicitHeader

\* io.WriteString(w.ResponseWriter, s): the wrapped writer's WriteString,
\* or its Write when it has none.  The handler can make the call when the
\* object it holds has the method.
WriteString ==
    /\ phase = "serving"
    /\ "stringwrite" \in Exposes(rw, caps)
    /\ ncalls < MaxCalls
    /\ ncalls' = ncalls + 1
    /\ ImplicitHeader

\* if f, ok := w.ResponseWriter.(http.Flusher); ok { f.Flush() }
Flush ==
    /\ phase = "serving"
    /\ "flush" \in Exposes(rw, caps)
    /\ ncalls < MaxCalls
    /\ ncalls' = ncalls + 1
    /\ IF "flush" \in caps THEN ImplicitHeader ELSE NoEffect

\* The inner handler returns: the server commits the header if the handler
\* never did, and the decorator and the response are dropped.
Finish ==
    /\ phase = "serving"
    /\ phase' = "idle"
    /\ reqCookie' = NoCookie
    /\ hLink' = <<>>
    /\ hPushed' = <<>>
    /\ hCookies' = <<>>
    /\ wroteHeader' = FALSE
    /\ bloom' = NilBloom
    /\ sent' = NotSent
    /\ log' = <<>>
    /\ ncalls' = 0
    /\ fwd' = <<>>
    /\ runs' = 0
    /\ links0' = <<>>
    /\ outcome' = <<>>
    /\ pushedIdx' = <<>>
    /\ encFailed' = FALSE
    /\ caps' = {}
    /\ rw' = "none"
    /\ optsHeader' = NoHeader
    /\ reqHeader' = NoHeader
    /\ whCodes' = <<>>
    /\ subreq' = <<>>
    /\ loads' = 0
    /\ UNCHANGED <<nresp, faults, lastCookie, honest, pushedEver, parse,
                   rReq, hLocation, codec, optsCookie, poolVars>>

\* pushHandler.ServeHTTP: a fresh decorator around the response writer of
\* a new request; the inner handler has set the Link header, as separate
\* values or as one comma separated value.
ServeHTTP ==
    /\ phase = "idle"
    /\ nresp < MaxResponses
    /\ \E links \in LinkLists, joined \in BOOLEAN,
          cookie \in {NoCookie, lastCookie} \cup ForeignCookies,
          c \in CapSets, oh \in ConfigHeaders, rh \in RequestHeaders :
        /\ InScope(links, c, oh, rh)
        /\ caps' = c
        /\ rw' = Wrap(c)
        /\ optsHeader' = oh
        /\ reqHeader' = rh
        /\ hLink' = IF joined /\ Len(links) > 1 THEN <<JoinComma(links, 1)>> ELSE links
        /\ links0' = links
        /\ reqCookie' = cookie
        /\ honest' = (honest /\ cookie = lastCookie)
        /\ outcome' = [i \in 1..Len(links) |-> "none"]
    /\ phase' = "serving"
    /\ nresp' = nresp + 1
    /\ UNCHANGED <<hPushed, hCookies, wroteHeader, bloom, sent, log, ncalls, fwd,
                   runs, pushedIdx, encFailed, faults, lastCookie, pushedEver,
                   parse, whCodes, subreq, rReq, hLocation, codec, loads, optsCookie, poolVars>>

CodecIdle == [mem |-> NilBloom, paths |-> {}, cookie |-> NoCookie,
              loaded |-> NilBloom, step |-> "idle"]

\* ------------------------------------------------------ scratch pools --
\* Goroutines that serve requests at the same time, and the requests they
\* serve in all.
MaxGoroutines == 2
MaxPoolRequests == 2

Goroutines == 1..MaxGoroutines

\* Nothing allocated yet.  A decompressor reads from src and remembers a
\* read error; a compressor writes to the buffer dst what it holds in
\* pending; a buffer has content.
HeapEmpty == [fr |-> <<>>, fw |-> <<>>, buf |-> <<>>]

\* No object: a nil pointer.
NilObj == 0

GoroutineIdle == [pc |-> "idle", cookie |-> NoCookie, path |-> <<>>, bloom |-> NilBloom,
                  fr |-> NilObj, fw |-> NilObj, buf |-> NilObj, value |-> NoCookie,
                  dirty |-> FALSE, err |-> FALSE, put |-> {}]

\* No request is being served.
InitNoRequest ==
    /\ caps = {}
    /\ rw = "none"
    /\ optsHeader = NoHeader
    /\ reqHeader = NoHeader
    /\ whCodes = <<>>
    /\ subreq = <<>>
    /\ rReq = FALSE
    /\ hLocation = <<>>
    /\ loads = 0
    /\ optsCookie = NoCookie
    /\ flateReaderPool = {}
    /\ flateWriterPool = {}
    /\ bufferPool = {}
    /\ heap = HeapEmpty
    /\ gor = [g \in Goroutines |-> GoroutineIdle]

InitBase ==
    /\ InitNoRequest
    /\ codec = CodecIdle
    /\ phase = "idle"
    /\ nresp = 0
    /\ reqCookie = NoCookie
    /\ hLink = <<>>
    /\ hPushed = <<>>
    /\ hCookies = <<>>
    /\ wroteHeader = FALSE
    /\ bloom = NilBloom
    /\ sent = NotSent
    /\ log = <<>>
    /\ ncalls = 0
    /\ fwd = <<>>
    /\ runs = 0
    /\ links0 = <<>>
    /\ outcome = <<>>
    /\ pushedIdx = <<>>
    /\ encFailed = FALSE
    /\ lastCookie = NoCookie
    /\ honest = TRUE
    /\ pushedEver = [t \in Targets |-> 0]
    /\ parse = ParseIdle

Init == InitBase /\ faults = FALSE

InitFaults == InitBase /\ faults = TRUE

\* ------------------------------------------------- one pushLink call --
\* Link fields put together from tokens: a first token and up to MaxAttrs
\* attribute tokens, joined by one separator.
PathTokens ==
    { <<"<","/","a",">">>, <<"<","/","b",">">>, <<"<","/","a","/",">">>,
      <<"<","/","/","a",">">>, <<"<","/","/","/",">">>, <<"<","/",">">>,
      <<"<",">">>, <<"<","a","/",">">>, <<"<","/","a","b">>, <<"x","/","a",">">> }

AttrTokens ==
    { RelPreload, RelPreloadQuoted, NoPushToken, <<"a","s","=","x">>,
      RelPreload \o <<"x">>, <<"x">> \o NoPushToken }

AttrLists == UNION {[1..n -> AttrTokens] : n \in 0..MaxAttrs}

Separators == { <<";">>, <<";"," ">>, <<"\t">> }

RECURSIVE JoinTokens(_, _, _)
JoinTokens(tokens, sep, i) ==
    IF i > Len(tokens) THEN <<>>
    ELSE IF i = Len(tokens) THEN tokens[i]
    ELSE tokens[i] \o sep \o JoinTokens(tokens, sep, i + 1)

\* Filters a decorator may hold when pushLink is called.
ParseBlooms ==
    { NewBloom(BloomM, BloomK),
      AddString(NewBloom(BloomM, BloomK), <<"/","a">>),
      AddString(NewBloom(BloomM, BloomK), <<"/","b">>) }

InitParse ==
    /\ InitNoRequest
    /\ codec = CodecIdle
    /\ phase = "parse"
    /\ nresp = 0
    /\ reqCookie = NoCookie
    /\ hLink = <<>>
    /\ hPushed = <<>>
    /\ hCookies = <<>>
    /\ wroteHeader = FALSE
    /\ bloom = NilBloom
    /\ sent = NotSent
    /\ log = <<>>
    /\ ncalls = 0
    /\ fwd = <<>>
    /\ runs = 0
    /\ links0 = <<>>
    /\ outcome = <<>>
    /\ pushedIdx = <<>>
    /\ encFailed = FALSE
    /\ faults = FALSE
    /\ lastCookie = NoCookie
    /\ honest = TRUE
    /\ pushedEver = [t \in Targets |-> 0]
    /\ \E path \in PathTokens, attrs \in AttrLists, sep \in Separators,
          bl \in ParseBlooms :
        parse = [ParseIdle EXCEPT !.link = JoinTokens(<<path>> \o attrs, sep, 1),
                                  !.tokens = <<path>> \o attrs,
                                  !.bloom = bl]

\* w.pushLink(&opts, link) on the field and the filter of parse.
CallPushLink ==
    /\ phase = "parse"
    /\ ~parse.done
    /\ \E res \in PushResults :
        LET r == pushLink(parse.bloom, NoCookie, parse.link, res)
        IN  parse' = [parse EXCEPT !.done = TRUE,
                                   !.attempted = r.attempted,
                                   !.target = r.target,
                                   !.pushed = r.pushed,
                                   !.after = r.bloom]
    /\ UNCHANGED <<phase, nresp, reqCookie, hLink, hPushed, hCookies, wroteHeader,
                   bloom, sent, log, ncalls, fwd, runs, links0, outcome, pushedIdx,
                   encFailed, faults, lastCookie, honest, pushedEver,
                   respVars, whCodes, subreq, rReq, hLocation, codec, loads, optsCookie, poolVars>>

\* ------------------------------------------ one save and one load --
\* Paths added to a filter before it is saved.
CodecPaths == { <<"/","a">>, <<"/","b">>, <<"/","c">>, <<"/","a","b">> }

\* The filter after AddString of every path of S.
RECURSIVE AddAll(_, _)
AddAll(bl, S) ==
    IF S = {} THEN bl
    ELSE LET p == CHOOSE x \in S : TRUE
         IN  AddAll(AddString(bl, p), S \ {p})

InitCodec ==
    /\ InitNoRequest
    /\ phase = "codec"
    /\ nresp = 0
    /\ reqCookie = NoCookie
    /\ hLink = <<>>
    /\ hPushed = <<>>
    /\ hCookies = <<>>
    /\ wroteHeader = FALSE
    /\ bloom = NilBloom
    /\ sent = NotSent
    /\ log = <<>>
    /\ ncalls = 0
    /\ fwd = <<>>
    /\ runs = 0
    /\ links0 = <<>>
    /\ outcome = <<>>
    /\ pushedIdx = <<>>
    /\ encFailed = FALSE
    /\ faults = FALSE
    /\ lastCookie = NoCookie
    /\ honest = TRUE
    /\ pushedEver = [t \in Targets |-> 0]
    /\ parse = ParseIdle
    /\ \E m \in 1..BloomM, k \in 1..BloomK, S \in SUBSET CodecPaths :
        codec = [CodecIdle EXCEPT !.mem = AddAll(NewBloom(m, k), S),
                                  !.paths = S,
                                  !.step = "made"]

\* Everything but codec.
nonCodecVars ==
    <<phase, nresp, reqCookie, hLink, hPushed, hCookies, wroteHeader, bloom, sent,
      log, ncalls, fwd, runs, links0, outcome, pushedIdx, encFailed, faults,
      lastCookie, honest, pushedEver, parse, respVars, whCodes, subreq, rReq,
      hLocation, loads, optsCookie, poolVars>>

\* w.saveBloomFilter() on a response without cookies: the value of the
\* cookie it sets.
CodecSave ==
    /\ phase = "codec"
    /\ codec.step = "made"
    /\ LET cookies == saveBloomFilter(<<>>, codec.mem, FALSE)
       IN  codec' = [codec EXCEPT !.cookie = cookies[1], !.step = "saved"]
    /\ UNCHANGED nonCodecVars

\* w.loadBloomFilter() on a request that carries the value.
CodecLoad ==
    /\ phase = "codec"
    /\ codec.step = "saved"
    /\ codec' = [codec EXCEPT !.loaded = loadBloomFilter(codec.cookie),
                              !.step = "loaded"]
    /\ UNCHANGED nonCodecVars

NextCodec == CodecSave \/ CodecLoad

\* ------------------------------------- concurrent loads and saves --
\* Requests served at the same time by MaxGoroutines goroutines; each one
\* loads the filter from its cookie, adds the path it pushed and saves
\* the filter, one statement of loadBloomFilter and saveBloomFilter at a
\* time.
PoolCookies ==
    { NoCookie,
      EncodeBloom(AddString(NewBloom(BloomM, BloomK), <<"/","c">>)),
      <<BloomM, BloomK, 1>> }

\* The path pushed for the n-th request.
PoolPath(n) == IF n % 2 = 1 THEN <<"/","a">> ELSE <<"/","b">>

InitPool ==
    /\ InitNoRequest
    /\ phase = "pool"
    /\ nresp = 0
    /\ reqCookie = NoCookie
    /\ hLink = <<>>
    /\ hPushed = <<>>
    /\ hCookies = <<>>
    /\ wroteHeader = FALSE
    /\ bloom = NilBloom
    /\ sent = NotSent
    /\ log = <<>>
    /\ ncalls = 0
    /\ fwd = <<>>
    /\ runs = 0
    /\ links0 = <<>>
    /\ outcome = <<>>
    /\ pushedIdx = <<>>
    /\ encFailed = FALSE
    /\ faults = TRUE
    /\ lastCookie = NoCookie
    /\ honest = TRUE
    /\ pushedEver = [t \in Targets |-> 0]
    /\ parse = ParseIdle
    /\ codec = CodecIdle

\* What the statements of a load or save leave alone.
poolFrame ==
    <<phase, reqCookie, hLink, hPushed, hCookies, wroteHeader, bloom, sent,
      log, ncalls, fwd, runs, links0, outcome, pushedIdx, encFailed, faults,
      lastCookie, honest, pushedEver, parse, respVars, whCodes, subreq, rReq,
      hLocation, codec, loads, optsCookie>>

\* sync.Pool.Get: an object of the pool, or none.
PoolGet(pool) == pool \cup {NilObj}

\* The goroutine moves on to statement pc.
Goto(g, pc) == [gor EXCEPT ![g].pc = pc]

\* A request arrives: it carries a cookie and the handler is about to push
\* one path for it.
PoolServe(g) ==
    /\ phase = "pool"
    /\ gor[g].pc = "idle"
    /\ nresp < MaxPoolRequests
    /\ nresp' = nresp + 1
    /\ \E c \in PoolCookies :
           gor' = [gor EXCEPT ![g] = [GoroutineIdle EXCEPT !.pc = "lookup",
                                                          !.cookie = c,
                                                          !.path = PoolPath(nresp + 1)]]
    /\ UNCHANGED <<flateReaderPool, flateWriterPool, bufferPool, heap, poolFrame>>

\* c, err := w.req.Cookie(...); a missing or empty one gives a new filter.
LookupCookie(g) ==
    /\ gor[g].pc = "lookup"
    /\ gor' = IF gor[g].cookie = NoCookie
              THEN [gor EXCEPT ![g].bloom = NewBloom(BloomM, BloomK), ![g].pc = "push"]
              ELSE Goto(g, "getReader")
    /\ UNCHANGED <<nresp, flateReaderPool, flateWriterPool, bufferPool, heap, poolFrame>>

\* fr := flateReaderPool.Get(): a new decompressor on the cookie value if
\* the pool gave none, the pooled one after Reset otherwise.
GetReader(g) ==
    /\ gor[g].pc = "getReader"
    /\ \E o \in PoolGet(flateReaderPool) :
        LET fresh == [src |-> gor[g].cookie, err |-> FALSE, closeErr |-> FALSE]
            id == IF o = NilObj THEN Len(heap.fr) + 1 ELSE o
        IN  /\ heap' = IF o = NilObj THEN [heap EXCEPT !.fr = Append(@, fresh)]
                       ELSE [heap EXCEPT !.fr[o] = fresh]
            /\ flateReaderPool' = flateReaderPool \ {o}
            /\ gor' = [gor EXCEPT ![g].fr = id, ![g].pc = "readFrom"]
    /\ UNCHANGED <<nresp, flateWriterPool, bufferPool, poolFrame>>

\* w.bloom.ReadFrom(fr): the filter the decompressor's input decodes to,
\* or a new one after a read error, which the decompressor keeps.
ReadFrom(g) ==
    /\ gor[g].pc = "readFrom"
    /\ LET id == gor[g].fr
           src == heap.fr[id].src
       IN  IF DecodeOK(src)
           THEN /\ gor' = [gor EXCEPT ![g].bloom = DecodeBloom(src),
                                      ![g].pc = "closeReader"]
                /\ heap' = heap
           ELSE /\ gor' = [gor EXCEPT ![g].bloom = NewBloom(BloomM, BloomK),
                                      ![g].pc = "closeReader"]
                /\ heap' = [heap EXCEPT !.fr[id].err = TRUE]
    /\ UNCHANGED <<nresp, flateReaderPool, flateWriterPool, bufferPool, poolFrame>>

\* fr.Close(): after a read error it may return that error.
CloseReader(g) ==
    /\ gor[g].pc = "closeReader"
    /\ \E e \in (IF heap.fr[gor[g].fr].err THEN BOOLEAN ELSE {FALSE}) :
           heap' = [heap EXCEPT !.fr[gor[g].fr].closeErr = e]
    /\ gor' = Goto(g, "putReader")
    /\ UNCHANGED <<nresp, flateReaderPool, flateWriterPool, bufferPool, poolFrame>>

\* The decompressor is never put back.
ReaderBackNever(closeErr) == FALSE

\* The error of fr.Close() is logged; flateReaderPool.Put(fr) follows in
\* either case.
ReaderBack(closeErr) == TRUE

PutReader(g) ==
    /\ gor[g].pc = "putReader"
    /\ flateReaderPool' = IF ReaderBack(heap.fr[gor[g].fr].closeErr)
                          THEN flateReaderPool \cup {gor[g].fr}
                          ELSE flateReaderPool
    /\ gor' = [gor EXCEPT ![g].pc = "push",
                          ![g].put = IF ReaderBack(heap.fr[gor[g].fr].closeErr)
                                     THEN @ \cup {"fr"} ELSE @]
    /\ UNCHANGED <<nresp, flateWriterPool, bufferPool, heap, poolFrame>>

\* The push of the path succeeds: w.bloom.AddString(path), and WriteHeader
\* goes on to saveBloomFilter.
PushPath(g) ==
    /\ gor[g].pc = "push"
    /\ gor' = [gor EXCEPT ![g].bloom = AddString(@, gor[g].path), ![g].pc = "getBuffer"]
    /\ UNCHANGED <<nresp, flateReaderPool, flateWriterPool, bufferPool, heap, poolFrame>>

\* buf := bufferPool.Get(): a pooled buffer as it was put back, or a new
\* one.
GetBuffer(g) ==
    /\ gor[g].pc = "getBuffer"
    /\ \E o \in PoolGet(bufferPool) :
        LET id == IF o = NilObj THEN Len(heap.buf) + 1 ELSE o
        IN  /\ heap' = IF o = NilObj THEN [heap EXCEPT !.buf = Append(@, <<>>)] ELSE heap
            /\ bufferPool' = bufferPool \ {o}
            /\ gor' = [gor EXCEPT ![g].buf = id,
                                  ![g].dirty = (o # NilObj /\ heap.buf[id] # <<>>),
                                  ![g].pc = "getWriter"]
    /\ UNCHANGED <<nresp, flateReaderPool, flateWriterPool, poolFrame>>

\* fw := flateWriterPool.Get(): the pooled compressor after Reset onto the
\* encoder of buf, or a new one on it.
GetWriter(g) ==
    /\ gor[g].pc = "getWriter"
    /\ \E o \in PoolGet(flateWriterPool) :
        LET fresh == [dst |-> gor[g].buf, pending |-> <<>>, closeErr |-> FALSE]
            id == IF o = NilObj THEN Len(heap.fw) + 1 ELSE o
        IN  /\ heap' = IF o = NilObj THEN [heap EXCEPT !.fw = Append(@, fresh)]
                       ELSE [heap EXCEPT !.fw[o] = fresh]
            /\ flateWriterPool' = flateWriterPool \ {o}
            /\ gor' = [gor EXCEPT ![g].fw = id, ![g].pc = "writeTo"]
    /\ UNCHANGED <<nresp, flateReaderPool, bufferPool, poolFrame>>

\* w.bloom.WriteTo(fw): the compressor takes the encoding, or the write
\* fails and saveBloomFilter returns.
WriteTo(g) ==
    /\ gor[g].pc = "writeTo"
    /\ \E fail \in BOOLEAN :
        IF fail
        THEN /\ gor' = [gor EXCEPT ![g].err = TRUE, ![g].pc = "done"]
             /\ heap' = heap
        ELSE /\ heap' = [heap EXCEPT !.fw[gor[g].fw].pending = @ \o EncodeBloom(gor[g].bloom)]
             /\ gor' = Goto(g, "closeWriter")
    /\ UNCHANGED <<nresp, flateReaderPool, flateWriterPool, bufferPool, poolFrame>>

\* fw.Close(): what the compressor holds goes into its destination, or
\* the close fails and saveBloomFilter returns.
CloseWriter(g) ==
    /\ gor[g].pc = "closeWriter"
    /\ \E fail \in BOOLEAN :
        LET id == gor[g].fw
            w == heap.fw[id]
        IN  IF fail
            THEN /\ gor' = [gor EXCEPT ![g].err = TRUE, ![g].pc = "done"]
                 /\ heap' = [heap EXCEPT !.fw[id].closeErr = TRUE]
            ELSE /\ heap' = [heap EXCEPT !.buf[w.dst] = @ \o w.pending,
                                         !.fw[id].pending = <<>>]
                 /\ gor' = Goto(g, "putWriter")
    /\ UNCHANGED <<nresp, flateReaderPool, flateWriterPool, bufferPool, poolFrame>>

\* flateWriterPool.Put(fw)
PutWriter(g) ==
    /\ gor[g].pc = "putWriter"
    /\ flateWriterPool' = flateWriterPool \cup {gor[g].fw}
    /\ gor' = [gor EXCEPT ![g].pc = "closeEncoder", ![g].put = @ \cup {"fw"}]
    /\ UNCHANGED <<nresp, flateReaderPool, bufferPool, heap, poolFrame>>

\* b64w.Close(): it fails and saveBloomFilter returns, or not.
CloseEncoder(g) ==
    /\ gor[g].pc = "closeEncoder"
    /\ \E fail \in BOOLEAN :
        gor' = IF fail THEN [gor EXCEPT ![g].err = TRUE, ![g].pc = "done"]
               ELSE Goto(g, "setCookie")
    /\ UNCHANGED <<nresp, flateReaderPool, flateWriterPool, bufferPool, heap, poolFrame>>

\* c.Value = buf.String(); http.SetCookie(w, &c)
SetCookie(g) ==
    /\ gor[g].pc = "setCookie"
    /\ gor' = [gor EXCEPT ![g].value = heap.buf[gor[g].buf], ![g].pc = "putBuffer"]
    /\ UNCHANGED <<nresp, flateReaderPool, flateWriterPool, bufferPool, heap, poolFrame>>

\* The buffer goes back as it is.
ResetBufferKeep(content) == content

\* buf.Reset()
ResetBuffer(content) == <<>>

\* buf.Reset(); bufferPool.Put(buf)
PutBuffer(g) ==
    /\ gor[g].pc = "putBuffer"
    /\ heap' = [heap EXCEPT !.buf[gor[g].buf] = ResetBuffer(@)]
    /\ bufferPool' = bufferPool \cup {gor[g].buf}
    /\ gor' = [gor EXCEPT ![g].pc = "done", ![g].put = @ \cup {"buf"}]
    /\ UNCHANGED <<nresp, flateReaderPool, flateWriterPool, poolFrame>>

\* WriteHeader and the handler return; the goroutine is free for the next
\* request.
PoolFinish(g) ==
    /\ gor[g].pc = "done"
    /\ gor' = [gor EXCEPT ![g] = GoroutineIdle]
    /\ UNCHANGED <<nresp, flateReaderPool, flateWriterPool, bufferPool, heap, poolFrame>>

NextPool ==
    \E g \in Goroutines :
        \/ PoolServe(g)
        \/ LookupCookie(g)
        \/ GetReader(g)
        \/ ReadFrom(g)
        \/ CloseReader(g)
        \/ PutReader(g)
        \/ PushPath(g)
        \/ GetBuffer(g)
        \/ GetWriter(g)
        \/ WriteTo(g)
        \/ CloseWriter(g)
        \/ PutWriter(g)
        \/ CloseEncoder(g)
        \/ SetCookie(g)
        \/ PutBuffer(g)
        \/ PoolFinish(g)

SpecPool == InitPool /\ [][NextPool]_vars

\* ------------------------------------------------- redirects handler --
\* Responses the redirects handler serves.
MaxRedirects == 1

\* Location header values a handler sets.
LocLogin == <<"/","l">>
LocOther == <<"/","m">>
LocProtocolRelative == <<"/","/","e","/","x">>
LocAbsolute == <<"h",":","/","/","e","/","x">>
LocEmpty == <<>>

LocationLists ==
    { <<>>, <<LocLogin>>, <<LocProtocolRelative>>, <<LocAbsolute>>, <<LocEmpty>>,
      <<LocLogin, LocOther>> }

RedirectCodes ==
    {StatusOK, RedirectLow - 1, RedirectLow, StatusFound, RedirectHigh - 1, RedirectHigh}

\* http.Header.Get: the first value, or the empty string.
Get(values) == IF Len(values) = 0 THEN <<>> ELSE values[1]

\* The test without the status range.
RedirectSkipAnyStatus(hasReq, code, location) ==
    \/ ~hasReq
    \/ location = <<>>
    \/ location[1] # "/"

\* The test without the req == nil disjunct.
RedirectSkipEveryCall(hasReq, code, location) ==
    \/ code < RedirectLow
    \/ code >= RedirectHigh
    \/ location = <<>>
    \/ location[1] # "/"

\* if req == nil || code < 300 || code >= 400 ||
\*     location == "" || location[0] != '/'
RedirectSkip(hasReq, code, location) ==
    \/ ~hasReq
    \/ code < RedirectLow
    \/ code >= RedirectHigh
    \/ location = <<>>
    \/ location[1] # "/"

\* A push that failed keeps the header from being forwarded.
RedirectAfterPushStopOnError(f, code, res) == IF res = "ok" THEN Append(f, code) ELSE f

\* Whatever Push returned, w.ResponseWriter.WriteHeader(code) follows.
RedirectAfterPush(f, code, res) == Append(f, code)

\* What the redirects handler leaves alone.
redirectFrame ==
    <<nresp, reqCookie, hLink, hPushed, hCookies, wroteHeader, bloom, runs, links0,
      pushedIdx, encFailed, faults, lastCookie, honest, pushedEver, parse, codec, loads, optsCookie, poolVars>>

\* redirects.ServeHTTP: a decorator around the response writer of a new
\* request, unless the writer is no Pusher.
RedirectsServeHTTP ==
    /\ phase = "idle"
    /\ nresp < MaxRedirects
    /\ \E c \in CapSets, oh \in ConfigHeaders, rh \in RequestHeaders,
          cookie \in {NoCookie} \cup ForeignCookies :
        /\ InScope(<<>>, c, oh, rh)
        /\ cookie = NoCookie \/ Usual(c, oh, rh)
        /\ caps' = c
        /\ rw' = Wrap(c)
        /\ rReq' = (Wrap(c) # "original")
        /\ optsHeader' = oh
        /\ reqHeader' = rh
        /\ reqCookie' = cookie
    /\ phase' = "redirecting"
    /\ nresp' = nresp + 1
    /\ UNCHANGED <<hLink, hPushed, hCookies, wroteHeader, bloom, sent, log, ncalls,
                   fwd, runs, links0, outcome, pushedIdx, encFailed, faults,
                   lastCookie, honest, pushedEver, parse, whCodes, subreq,
                   hLocation, codec, loads, optsCookie, poolVars>>

\* The inner handler sets the Location header: w.Header()["Location"] = values.
SetLocation(values) ==
    /\ phase = "redirecting"
    /\ hLocation # values
    /\ hLocation' = values
    /\ UNCHANGED <<phase, sent, log, ncalls, fwd, outcome, respVars, whCodes, subreq,
                   rReq, redirectFrame>>

\* redirectResponseWriter.WriteHeader, or the response writer's own
\* method when ServeHTTP did not wrap it.
RedirectWriteHeader(code) ==
    /\ phase = "redirecting"
    /\ ncalls < MaxCalls
    /\ ncalls' = ncalls + 1
    /\ IF rw = "original"
       THEN /\ RawWriteHeader(code)
            /\ UNCHANGED <<rReq, whCodes, subreq, outcome>>
       ELSE /\ rReq' = FALSE
            /\ whCodes' = Append(whCodes, code)
            /\ LET location == Get(hLocation)
               IN  IF RedirectSkip(rReq, code, location)
                   THEN /\ fwd' = Append(fwd, code)
                        /\ log' = log \o HdrEvent(sent)
                        /\ UNCHANGED <<subreq, outcome>>
                   ELSE \E res \in PushResults :
                        /\ subreq' = subreq \o SubRequests(<<location>>,
                                                           headers(optsHeader, reqHeader))
                        /\ outcome' = Append(outcome, res)
                        /\ fwd' = RedirectAfterPush(fwd, code, res)
                        /\ log' = log \o PushEvents(<<location>>) \o HdrEvent(sent)
            /\ sent' = UnderWriteHeader(sent, code, hLink, hPushed, hCookies)
    /\ UNCHANGED <<phase, hLocation, respVars, redirectFrame>>

\* A call that reaches the wrapped writer and has it commit the header.
RedirectImplicitHeader ==
    /\ sent' = UnderWriteHeader(sent, StatusOK, hLink, hPushed, hCookies)
    /\ log' = log \o HdrEvent(sent)
    /\ UNCHANGED <<phase, fwd, outcome, respVars, whCodes, subreq, rReq, hLocation,
                   redirectFrame>>

RedirectWrite ==
    /\ phase = "redirecting"
    /\ ncalls < MaxCalls
    /\ ncalls' = ncalls + 1
    /\ RedirectImplicitHeader

\* io.WriteString(w.ResponseWriter, s)
RedirectWriteString ==
    /\ phase = "redirecting"
    /\ "stringwrite" \in Exposes(rw, caps)
    /\ ncalls < MaxCalls
    /\ ncalls' = ncalls + 1
    /\ RedirectImplicitHeader

\* if f, ok := w.ResponseWriter.(http.Flusher); ok { f.Flush() }
RedirectFlush ==
    /\ phase = "redirecting"
    /\ "flush" \in Exposes(rw, caps)
    /\ ncalls < MaxCalls
    /\ ncalls' = ncalls + 1
    /\ IF "flush" \in caps
       THEN RedirectImplicitHeader
       ELSE UNCHANGED <<phase, sent, log, fwd, outcome, respVars, whCodes, subreq,
                        rReq, hLocation, redirectFrame>>

\* The inner handler returns.
RedirectFinish ==
    /\ phase = "redirecting"
    /\ phase' = "idle"
    /\ reqCookie' = NoCookie
    /\ sent' = NotSent
    /\ log' = <<>>
    /\ ncalls' = 0
    /\ fwd' = <<>>
    /\ outcome' = <<>>
    /\ caps' = {}
    /\ rw' = "none"
    /\ optsHeader' = NoHeader
    /\ reqHeader' = NoHeader
    /\ whCodes' = <<>>
    /\ subreq' = <<>>
    /\ rReq' = FALSE
    /\ hLocation' = <<>>
    /\ UNCHANGED <<nresp, hLink, hPushed, hCookies, wroteHeader, bloom, runs, links0,
                   pushedIdx, encFailed, faults, lastCookie, honest, pushedEver,
                   parse, codec, loads, optsCookie, poolVars>>

NextRedirect ==
    \/ RedirectsServeHTTP
    \/ \E values \in LocationLists : SetLocation(values)
    \/ \E code \in RedirectCodes : RedirectWriteHeader(code)
    \/ RedirectWrite
    \/ RedirectWriteString
    \/ RedirectFlush
    \/ RedirectFinish

Next ==
    \/ ServeHTTP
    \/ \E code \in Codes : WriteHeader(code)
    \/ Write
    \/ WriteString
    \/ Flush
    \/ Finish

\* Writes into the in-memory buffer do not fail.
Spec == Init /\ [][Next]_vars

\* Every failure class of the error taxonomy may happen.
SpecFaults == InitFaults /\ [][Next]_vars

\* pushLink alone, on every field of the generated inputs.
SpecParse == InitParse /\ [][CallPushLink]_vars

\* The redirects handler alone.
SpecRedirect == Init /\ [][NextRedirect]_vars

\* Both handlers mounted on one server.
SpecAll == Init /\ [][Next \/ NextRedirect]_vars

\* One filter saved to a cookie value and loaded back.
SpecCodec == InitCodec /\ [][NextCodec]_vars

\* ------------------------------------------------- properties: helpers --
\* The response has been through the Link walk of WriteHeader and the
\* handler is still running.
Walked == phase = "serving" /\ runs >= 1

\* The wrapped writer has committed the response header.
Committed == phase = "serving" /\ sent.code # 0

\* The inner handler holds a decorator, not the response object itself.
Decorated == rw \in {"decorator", "closeNotifyDecorator"}

IsPushEvent(e) == e.ev = "push"

\* Push attempts made so far for this response.
PushCount == Len(SelectSeq(log, IsPushEvent))

\* Positions of links0 for which Push was called.
AttemptedAt == {i \in DOMAIN outcome : outcome[i] \in {"ok", "err", "unsupported"}}

\* Copies of the field l in the list s.
Occ(s, l) == Cardinality({i \in DOMAIN s : s[i] = l})

\* A field is a push candidate, in the words of the specification: at
\* least two tokens, the first one an absolute path in angle brackets, a
\* preload relation among the others, and no nopush among them.
ClaimShape(t) ==
    /\ Len(t) >= 4
    /\ t[1] = "<"
    /\ t[2] = "/"
    /\ t[3] # "/"
    /\ t[Len(t)] = ">"

ClaimCandidate(tokens) ==
    /\ Len(tokens) >= 2
    /\ ClaimShape(tokens[1])
    /\ \E i \in 2..Len(tokens) : tokens[i] \in {RelPreload, RelPreloadQuoted}
    /\ \A i \in 2..Len(tokens) : tokens[i] # NoPushToken

EligibleLinks == {l \in Catalog : ClaimCandidate(FieldsFunc(l))}

\* The filter the response started from, with the paths of the pushes that
\* succeeded added to it.
RECURSIVE AddPushed(_, _)
AddPushed(bl, i) ==
    IF i > Len(outcome) THEN bl
    ELSE AddPushed(IF outcome[i] = "ok" THEN AddString(bl, TargetOf(links0[i])) ELSE bl,
                   i + 1)

\* ------------------------------------------------------------------ C1 --
\* C1: whatever the order in which the handler calls WriteHeader, Write,
\* WriteString and Flush, once the header of a response with an eligible
\* Link field is committed with a status other than 304 the Link walk has
\* run exactly once, and no push attempt comes after the commit.
C1_OrchestratedOnceBeforeHeader ==
    ( /\ Committed
      /\ Decorated
      /\ \E i \in DOMAIN links0 : links0[i] \in EligibleLinks
      /\ StatusNotModified \notin Range(fwd) )
    => /\ runs = 1
       /\ \A i, j \in DOMAIN log :
              (i < j /\ log[i].ev = "hdr") => log[j].ev # "push"

\* ------------------------------------------------------------------ C2 --
\* C2: a WriteHeader call on a decorator whose wroteHeader is already set
\* attempts no push, loads no filter, sets no cookie, leaves the Link and
\* pushed headers as they are, and passes its status code on.
C2_LaterWriteHeaderOnlyForwards ==
    [][ ( /\ phase = "serving"
          /\ wroteHeader
          /\ Len(fwd') = Len(fwd) + 1 )
        => /\ SelectSeq(log', IsPushEvent) = SelectSeq(log, IsPushEvent)
           /\ bloom' = bloom
           /\ hCookies' = hCookies
           /\ hLink' = hLink
           /\ hPushed' = hPushed
           /\ runs' = runs
           /\ SubSeq(fwd', 1, Len(fwd)) = fwd
           /\ fwd'[Len(fwd')] \in Codes ]_vars

\* A second WriteHeader call after a first one that pushed.
C2_Witness ==
    /\ phase = "serving"
    /\ Len(fwd) = 2
    /\ fwd[1] = StatusOK
    /\ runs = 1
    /\ PushCount >= 1
    /\ hPushed # <<>>

\* ------------------------------------------------------------------ C3 --
\* C3: while every request carries the memory cookie most recently set, no
\* path is pushed successfully more than once over the responses; and a
\* response all of whose eligible paths are members already sets no cookie.
C3_NoRepeatedPush ==
    /\ honest => \A t \in Targets : pushedEver[t] <= 1
    /\ ( /\ Walked
         /\ \A i \in DOMAIN links0 :
                links0[i] \in EligibleLinks => outcome[i] = "member" )
       => hCookies = <<>>

\* The second response of a client that returned the cookie: a path pushed
\* in the first response is a member now, and no cookie is set.
C3_Witness ==
    /\ Walked
    /\ honest
    /\ nresp = 2
    /\ reqCookie # NoCookie
    /\ hCookies = <<>>
    /\ \E i \in DOMAIN links0 :
           /\ outcome[i] = "member"
           /\ pushedEver[TargetOf(links0[i])] = 1

\* ------------------------------------------------------------------ C4 --
\* C4: a response that went through WriteHeader carries a new memory
\* cookie exactly when at least one push succeeded, unless encoding the
\* filter failed; with no push at all it carries none.
C4_CookieIffPushed ==
    (phase = "serving" /\ wroteHeader)
    => /\ ~encFailed => ((hCookies # <<>>) <=> (\E i \in DOMAIN outcome : outcome[i] = "ok"))
       /\ (\A i \in DOMAIN outcome : outcome[i] # "ok") => hCookies = <<>>
       /\ hCookies # <<>> => hCookies = <<EncodeBloom(bloom)>>

\* A response with a successful push and the cookie that records it.
C4_Witness ==
    /\ phase = "serving"
    /\ faults
    /\ wroteHeader
    /\ ~encFailed
    /\ \E i \in DOMAIN outcome : outcome[i] = "ok"
    /\ hCookies = <<EncodeBloom(bloom)>>

\* ------------------------------------------------------------------ C5 --
\* C5: for every link pushed successfully, whatever happened to the links
\* after it: its path is in the filter, the outgoing Link header holds no
\* copy of it beyond the occurrences that were not pushed, and the pushed
\* header lists it.
C5_PushedLinkLeavesLinkHeader ==
    Walked =>
        \A i \in DOMAIN outcome :
            outcome[i] = "ok" =>
                /\ TestString(bloom, TargetOf(links0[i]))
                /\ links0[i] \in Range(hPushed)
                /\ Occ(hLink, links0[i])
                       <= Cardinality({j \in DOMAIN links0 :
                                          links0[j] = links0[i] /\ outcome[j] # "ok"})

\* ------------------------------------------------------------------ C6 --
\* C6: when a push returns the unsupported error, Push is not called for
\* any later link, and that link and every link after it stand in the
\* outgoing Link header at their positions, as the handler set them.
C6_UnsupportedStopsTheWalk ==
    Walked =>
        \A u \in DOMAIN outcome :
            outcome[u] = "unsupported" =>
                /\ \A j \in (u + 1)..Len(outcome) : outcome[j] = "none"
                /\ PushCount = Cardinality({i \in 1..u : i \in AttemptedAt})
                /\ SelectSeq(log, IsPushEvent)[PushCount].target = TargetOf(links0[u])
                /\ Len(hLink) = Len(links0)
                /\ \A j \in u..Len(links0) : hLink[j] = links0[j]

\* A push that succeeded, then one that is unsupported, then an eligible
\* link that is never tried.
C6_Witness ==
    /\ Walked
    /\ Len(links0) = 3
    /\ outcome = <<"ok", "unsupported", "none">>
    /\ links0[3] \in EligibleLinks
    /\ hLink[3] = links0[3]

\* ------------------------------------------------------------------ C7 --
\* C7: when a push fails with an error other than unsupported, the link
\* stays in the outgoing Link header, it is not listed as pushed, the
\* filter gains nothing from it (it is the loaded filter plus the paths of
\* the pushes that succeeded), and the walk goes on: every later link is
\* evaluated in its turn, up to a link whose push is unsupported.
C7_ErrorKeepsLinkAndWalkGoesOn ==
    Walked =>
        \A e \in DOMAIN outcome :
            outcome[e] = "err" =>
                /\ links0[e] \in Range(hLink)
                /\ e \notin Range(pushedIdx)
                /\ Len(hPushed) = Cardinality({i \in DOMAIN outcome : outcome[i] = "ok"})
                /\ bloom = AddPushed(loadBloomFilter(reqCookie), 1)
                /\ \A j \in (e + 1)..Len(outcome) :
                       \/ outcome[j] # "none"
                       \/ \E k \in (e + 1)..(j - 1) : outcome[k] = "unsupported"

\* A push that failed, followed by a link that was pushed.
C7_Witness ==
    /\ Walked
    /\ \E e \in DOMAIN outcome :
           /\ outcome[e] = "err"
           /\ e < Len(outcome)
           /\ outcome[e + 1] = "ok"
           /\ links0[e] \in Range(hLink)
           /\ ~TestString(bloom, TargetOf(links0[e]))

\* ------------------------------------------------------------------ C8 --
\* C8 as stated: an eligible link whose path tests positive already is not
\* pushed and appears neither in the pushed list nor in the outgoing Link
\* header (the header holds no copy of it beyond the occurrences that were
\* neither pushed nor members).
C8_MemberLinkInNeitherHeader ==
    Walked =>
        \A i \in DOMAIN outcome :
            outcome[i] = "member" =>
                /\ i \notin Range(pushedIdx)
                /\ PushCount = Cardinality(AttemptedAt)
                /\ Occ(hLink, links0[i])
                       <= Cardinality({j \in DOMAIN links0 :
                                          /\ links0[j] = links0[i]
                                          /\ outcome[j] \notin {"ok", "member"}})

\* C8 amended: an eligible link whose path tests positive already is not
\* pushed and is not listed as pushed, and it stays in the outgoing Link
\* header, once for each such occurrence at least.
C8_MemberLinkStaysInLinkHeader ==
    Walked =>
        \A i \in DOMAIN outcome :
            outcome[i] = "member" =>
                /\ i \notin Range(pushedIdx)
                /\ PushCount = Cardinality(AttemptedAt)
                /\ Len(hPushed) = Cardinality({j \in DOMAIN outcome : outcome[j] = "ok"})
                /\ Occ(hLink, links0[i])
                       >= Cardinality({j \in DOMAIN links0 :
                                          /\ links0[j] = links0[i]
                                          /\ outcome[j] = "member"})

\* A response whose only link is a member already: nothing is pushed and
\* the link is in the outgoing header.
C8_Witness ==
    /\ Walked
    /\ Len(links0) = 1
    /\ outcome = <<"member">>
    /\ hLink = links0
    /\ hPushed = <<>>
    /\ PushCount = 0

\* ------------------------------------------------------------------ C9 --
\* C9: pushLink calls Push exactly when the field has at least two tokens,
\* the first is at least four characters, starts with "<" and "/", has no
\* "/" third and ends with ">", a later token is rel=preload or
\* rel="preload", no later token is nopush, and the path does not test
\* positive; the target pushed is the first token without its brackets.
C9_PushIffEligible ==
    parse.done =>
        LET t == parse.tokens
            stripped == SubSeq(t[1], 2, Len(t[1]) - 1)
        IN  /\ parse.attempted <=>
                   (ClaimCandidate(t) /\ ~TestString(parse.bloom, stripped))
            /\ parse.attempted => parse.target = stripped

\* A field with an attribute before the preload relation, pushed.
C9_Witness ==
    /\ parse.done
    /\ parse.attempted
    /\ parse.pushed
    /\ Len(parse.tokens) = 3
    /\ parse.tokens[3] = RelPreloadQuoted

\* ----------------------------------------------------------------- C10 --
\* C10: in a response where no push is unsupported, the fields that are
\* not push candidates are in the outgoing Link header unchanged, once
\* for each occurrence and in their original order.
C10_NonCandidatesPassThrough ==
    (Walked /\ \A i \in DOMAIN outcome : outcome[i] # "unsupported") =>
        LET NonCandidate(l) == l \notin EligibleLinks
        IN  SelectSeq(hLink, NonCandidate) = SelectSeq(links0, NonCandidate)

\* Two different fields that are not candidates around one that is pushed.
C10_Witness ==
    /\ Walked
    /\ Len(links0) = 3
    /\ links0[1] \notin EligibleLinks
    /\ links0[3] \notin EligibleLinks
    /\ links0[1] # links0[3]
    /\ outcome[2] = "ok"
    /\ hLink = <<links0[1], links0[3]>>

\* ----------------------------------------------------------------- C11 --
\* C11: when the request carries no memory cookie, or one that does not
\* decode, the walk starts from an empty filter of the configured m and
\* k: the filter at the end holds the paths pushed in this response and
\* nothing else, Push is called for every eligible link unless a push of
\* this response succeeded before it and made it a member or an earlier
\* push was unsupported, and the header is committed.
C11_FreshMemoryOnBadCookie ==
    ( /\ Walked
      /\ reqCookie = NoCookie \/ ~DecodeOK(reqCookie)
      /\ \E i \in DOMAIN links0 : links0[i] \in EligibleLinks )
    => /\ bloom = AddPushed(NewBloom(BloomM, BloomK), 1)
       /\ \A i \in DOMAIN links0 :
              links0[i] \in EligibleLinks =>
                  \/ i \in AttemptedAt
                  \/ /\ outcome[i] = "member"
                     /\ \E j \in 1..(i - 1) : outcome[j] = "ok"
                  \/ /\ outcome[i] = "none"
                     /\ \E j \in 1..(i - 1) : outcome[j] = "unsupported"
       /\ sent.code # 0
       /\ fwd # <<>>

\* A request whose cookie is cut short: the link is pushed and the header
\* committed.
C11_Witness ==
    /\ Walked
    /\ reqCookie # NoCookie
    /\ ~DecodeOK(reqCookie)
    /\ Len(links0) >= 1
    /\ outcome[1] = "ok"
    /\ sent.code = StatusOK
    /\ hCookies # <<>>

C13_EveryCallForwardedOnce ==
    (phase = "serving" /\ Decorated) => fwd = whCodes

\* Two WriteHeader calls on a response whose cookie did not decode, with a
\* push that failed, one that succeeded, and a save that failed.
C13_Witness ==
    /\ phase = "serving"
    /\ Decorated
    /\ Len(whCodes) = 2
    /\ fwd = whCodes
    /\ encFailed
    /\ reqCookie # NoCookie
    /\ ~DecodeOK(reqCookie)
    /\ \E i, j \in DOMAIN outcome : outcome[i] = "err" /\ outcome[j] = "ok"

\* --------------------------------------- properties of the redirects --
\* A Location value that is a path on this host: it starts with one "/".
RootRelative(l) == Len(l) >= 1 /\ l[1] = "/" /\ (Len(l) < 2 \/ l[2] # "/")

\* The step is a WriteHeader call on the redirect decorator.
RedirectCall ==
    /\ phase = "redirecting"
    /\ phase' = "redirecting"
    /\ Len(whCodes') = Len(whCodes) + 1

\* ----------------------------------------------------------------- C14 --
\* C14: the first WriteHeader call on a redirect decorator, with status
\* 302 and one Location value that is root-relative, issues exactly one
\* push, of that value, with the proxied headers of the request, whatever
\* cookie the request carries and without reading or setting the memory
\* cookie; with a status below 300 or from 400 on, or a Location that is
\* missing, empty or not starting with "/", it issues none.
C14_RedirectPushedOnFirstCommit ==
    [][ (RedirectCall /\ whCodes = <<>>) =>
          LET code == whCodes'[1]
              location == Get(hLocation)
          IN  /\ ( /\ code = StatusFound
                   /\ Len(hLocation) = 1
                   /\ RootRelative(location) )
                 => /\ Len(subreq') = Len(subreq) + 1
                    /\ subreq'[Len(subreq')].target = location
                    /\ \A i \in DOMAIN proxyHeaders :
                           Lookup(subreq'[Len(subreq')].header, proxyHeaders[i])
                               = Lookup(reqHeader, proxyHeaders[i])
                    /\ bloom' = NilBloom
                    /\ hCookies' = <<>>
              /\ ( \/ code < RedirectLow
                   \/ code >= RedirectHigh
                   \/ location = <<>>
                   \/ location[1] # "/" )
                 => subreq' = subreq ]_vars

\* A 302 to /l answered to a request that carries a memory cookie: one
\* push of /l.
C14_Witness ==
    /\ phase = "redirecting"
    /\ whCodes = <<StatusFound>>
    /\ reqCookie # NoCookie
    /\ Len(subreq) = 1
    /\ subreq[1].target = LocLogin
    /\ subreq[1].header["User-Agent"] = reqHeader["User-Agent"]
    /\ bloom = NilBloom

\* ----------------------------------------------------------------- C15 --
\* C15: a WriteHeader call on a redirect decorator pushes only if the
\* response holds exactly one Location value and that value is
\* root-relative, so not one that begins with "//".
C15_PushOnlySingleRootRelative ==
    [][ (RedirectCall /\ subreq' # subreq) =>
          /\ Len(hLocation) = 1
          /\ RootRelative(hLocation[1]) ]_vars

\* ----------------------------------------------------------------- C16 --
\* C16: a redirect decorator issues a push only in its first WriteHeader
\* call, and one push at most: a step of a response that issues a push is
\* the first WriteHeader call and the push is the first of the response.
C16_PushOnlyInFirstCall ==
    [][ (phase = "redirecting" /\ phase' = "redirecting"
            /\ (subreq' # subreq
                    \/ SelectSeq(log', IsPushEvent) # SelectSeq(log, IsPushEvent))) =>
          /\ whCodes = <<>>
          /\ Len(whCodes') = 1
          /\ subreq = <<>>
          /\ Len(subreq') = 1 ]_vars

\* A first commit with status 200, then a WriteHeader(302) with a
\* root-relative Location: nothing is pushed.
C16_Witness ==
    /\ phase = "redirecting"
    /\ Decorated
    /\ whCodes = <<StatusOK, StatusFound>>
    /\ hLocation = <<LocLogin>>
    /\ subreq = <<>>
    /\ PushCount = 0

\* ----------------------------------------------------------------- C17 --
\* C17: whatever the push returns, a WriteHeader call on a redirect
\* decorator passes its status code to the wrapped writer's WriteHeader
\* exactly once and leaves the Location header as it is.
C17_RedirectAlwaysForwarded ==
    [][ RedirectCall =>
          /\ fwd' = Append(fwd, whCodes'[Len(whCodes')])
          /\ hLocation' = hLocation
          /\ sent'.code # 0 ]_vars

\* A redirect whose push failed, committed with its status.
C17_Witness ==
    /\ phase = "redirecting"
    /\ outcome = <<"err">>
    /\ whCodes = <<StatusFound>>
    /\ fwd = <<StatusFound>>
    /\ sent.code = StatusFound
    /\ hLocation = <<LocLogin>>

\* ----------------------------------------------------------------- C18 --
\* C18: every push sub-request of either decorator carries the configured
\* headers, except that each of the four proxied headers has the values
\* of the request being served (none when the request has none) and that
\* X-H2-Push is "1"; so IsPush holds of it.
C18_PushHeadersMerged ==
    \A i \in DOMAIN subreq :
        LET h == subreq[i].header
            proxied == Range(proxyHeaders)
        IN  /\ \A k \in proxied : Lookup(h, k) = Lookup(reqHeader, k)
            /\ h[sentinelHeader] = <<"1">>
            /\ IsPush(h)
            /\ \A k \in DOMAIN optsHeader \ (proxied \cup {sentinelHeader}) :
                   k \in DOMAIN h /\ h[k] = optsHeader[k]
            /\ DOMAIN h \subseteq DOMAIN optsHeader \cup proxied \cup {sentinelHeader}

\* A push of the Link decorator under a configuration that sets the
\* sentinel and a proxied header.
C18_Witness ==
    /\ phase = "serving"
    /\ optsHeader = ConfigHostile
    /\ Len(subreq) >= 1
    /\ subreq[1].header["User-Agent"] = <<"ua">>
    /\ subreq[1].header[sentinelHeader] = <<"1">>
    /\ subreq[1].header["X-Extra"] = <<"e">>

C20_NoPusherNoDecorator ==
    [][ (phase' \in {"serving", "redirecting"} /\ "push" \notin caps') =>
          /\ rw' = "original"
          /\ subreq' = <<>>
          /\ SelectSeq(log', IsPushEvent) = <<>>
          /\ bloom' = NilBloom
          /\ hCookies' = <<>>
          /\ phase = phase' => hLink' = hLink ]_vars

\* A response with an eligible link, committed through an object that is
\* no Pusher: the Link header went out as the handler set it.
C20_Witness ==
    /\ phase = "serving"
    /\ "push" \notin caps
    /\ rw = "original"
    /\ Len(links0) = 1
    /\ links0[1] \in EligibleLinks
    /\ fwd = <<StatusOK>>
    /\ sent.code = StatusOK
    /\ sent.link = links0
    /\ hLink = links0

\* ----------------------------------------------------------------- C21 --
\* C21: a first WriteHeader call on the Link decorator with status 304, or
\* on a response without Link values, attempts no push, leaves the filter
\* unloaded and the Link, pushed and Set-Cookie headers as they are (the
\* walk that assigns them does not run), and passes the status on.
C21_NotModifiedOrNoLinksForwardOnly ==
    [][ ( /\ phase = "serving"
          /\ phase' = "serving"
          /\ Decorated
          /\ whCodes = <<>>
          /\ Len(whCodes') = 1
          /\ whCodes'[1] = StatusNotModified \/ hLink = <<>> ) =>
          /\ subreq' = subreq
          /\ SelectSeq(log', IsPushEvent) = SelectSeq(log, IsPushEvent)
          /\ bloom' = NilBloom
          /\ runs' = runs
          /\ hLink' = hLink
          /\ hPushed' = hPushed
          /\ hCookies' = hCookies
          /\ fwd' = Append(fwd, whCodes'[1])
          /\ sent'.code # 0 ]_vars

\* A 304 response that carries an eligible link: committed with the Link
\* header as set, nothing pushed.
C21_Witness ==
    /\ phase = "serving"
    /\ Decorated
    /\ whCodes = <<StatusNotModified>>
    /\ Len(links0) >= 1
    /\ links0[1] \in EligibleLinks
    /\ hLink = links0
    /\ sent = [code |-> StatusNotModified, link |-> links0, pushed |-> <<>>,
               cookies |-> <<>>]
    /\ fwd = <<StatusNotModified>>
    /\ subreq = <<>>
    /\ bloom = NilBloom

\* ----------------------------------------------------------------- C23 --
\* C23: after the Link walk, the Link header holds no field more often
\* than the handler's list did, and holds every field of that list that
\* was not pushed.
C23_CompactionKeepsEachLinkOnce ==
    Walked =>
        /\ \A l \in Range(hLink) \cup Range(links0) : Occ(hLink, l) <= Occ(links0, l)
        /\ \A i \in DOMAIN links0 : outcome[i] # "ok" => links0[i] \in Range(hLink)

\* ----------------------------------------------------------------- C24 --
\* The targets of the fields of links0 from position i on for which Push
\* was called, in list order.
RECURSIVE AttemptTargets(_)
AttemptTargets(i) ==
    IF i > Len(links0) THEN <<>>
    ELSE (IF i \in AttemptedAt THEN <<TargetOf(links0[i])>> ELSE <<>>)
             \o AttemptTargets(i + 1)

\* The fields of links0 from position i on that were not pushed.
RECURSIVE NotPushedFrom(_)
NotPushedFrom(i) ==
    IF i > Len(links0) THEN <<>>
    ELSE (IF outcome[i] # "ok" THEN <<links0[i]>> ELSE <<>>) \o NotPushedFrom(i + 1)

\* C24: the pushes of a response are attempted in the order of the
\* handler's Link list and each is of the field at its position; the
\* pushed header lists the pushed fields in that order; and when no push
\* was unsupported the Link header is the list without the pushed fields.
C24_WalkInListOrder ==
    Walked =>
        LET pushes == SelectSeq(log, IsPushEvent) IN
        /\ [j \in DOMAIN pushes |-> pushes[j].target] = AttemptTargets(1)
        /\ [j \in DOMAIN subreq |-> subreq[j].target] = AttemptTargets(1)
        /\ \A j \in DOMAIN pushedIdx :
               /\ outcome[pushedIdx[j]] = "ok"
               /\ j > 1 => pushedIdx[j - 1] < pushedIdx[j]
        /\ {pushedIdx[j] : j \in DOMAIN pushedIdx} = {i \in DOMAIN outcome : outcome[i] = "ok"}
        /\ hPushed = [j \in DOMAIN pushedIdx |-> links0[pushedIdx[j]]]
        /\ (\A i \in DOMAIN outcome : outcome[i] # "unsupported") =>
               hLink = NotPushedFrom(1)

\* Three fields walked: the first one kept, the other two pushed.
C24_Witness ==
    /\ Walked
    /\ Len(links0) = 3
    /\ outcome[1] \in {"skip", "err"}
    /\ outcome[2] = "ok"
    /\ outcome[3] = "ok"
    /\ links0[2] # links0[3]
    /\ hPushed = <<links0[2], links0[3]>>
    /\ hLink = <<links0[1]>>

\* ----------------------------------------------------------------- C28 --
\* C28: the filter a response consults has the configured parameters
\* (m, k), and so has every cookie value the response sets.
C28_FilterHasConfiguredParameters ==
    phase = "serving" =>
        /\ bloom # NilBloom => bloom.m = BloomM /\ bloom.k = BloomK
        /\ \A j \in DOMAIN hCookies : hCookies[j][1] = BloomM /\ hCookies[j][2] = BloomK

\* ----------------------------------------------------------------- C26 --
\* C26: loadBloomFilter runs at most once for a response, and it has run
\* exactly when the walk has reached an eligible link; for a response
\* without eligible link it never runs.
C26_CookieReadAtMostOnce ==
    phase = "serving" =>
        /\ loads <= 1
        /\ loads = 1 <=> bloom # NilBloom
        /\ loads = 1 <=>
               \E i \in DOMAIN links0 : links0[i] \in EligibleLinks /\ outcome[i] # "none"
        /\ (\A i \in DOMAIN links0 : links0[i] \notin EligibleLinks) => loads = 0

\* Two eligible links walked on a request that carries a cookie: one load.
C26_Witness ==
    /\ Walked
    /\ reqCookie # NoCookie
    /\ Len(links0) >= 2
    /\ links0[1] \in EligibleLinks
    /\ links0[2] \in EligibleLinks
    /\ outcome[1] # "none"
    /\ outcome[2] # "none"
    /\ loads = 1

\* ----------------------------------------------------------------- C27 --
\* C27: no step changes the cookie template, and no step of a handler
\* that is serving a request changes the header map of the configured
\* push options.
C27_ConfigurationNeverModified ==
    [][ /\ optsCookie' = optsCookie
        /\ (phase \in {"serving", "redirecting"} /\ phase' = phase) =>
               optsHeader' = optsHeader ]_vars

\* A response that pushed with merged headers and set the cookie, under a
\* configuration with headers of its own.
C27_Witness ==
    /\ Walked
    /\ optsHeader = ConfigPlain
    /\ Len(subreq) >= 1
    /\ subreq[1].header # optsHeader
    /\ hCookies # <<>>
    /\ optsCookie = NoCookie

\* ------------------------------------------- properties of the pools --
\* Statements at which a goroutine works with the object it took.
HoldsReader(g) == gor[g].pc \in {"readFrom", "closeReader", "putReader"}
HoldsWriter(g) == gor[g].pc \in {"writeTo", "closeWriter", "putWriter"}
HoldsBuffer(g) ==
    gor[g].pc \in {"getWriter", "writeTo", "closeWriter", "putWriter", "closeEncoder",
                   "setCookie", "putBuffer"}

\* The goroutine is past loadBloomFilter.
AfterLoad(g) == gor[g].pc \notin {"idle", "lookup", "getReader", "readFrom", "closeReader",
                                  "putReader"}

\* The goroutine is past the push of its path.
AfterPush(g) == AfterLoad(g) /\ gor[g].pc # "push"

\* ----------------------------------------------------------------- C22 --
\* C22: a decompressor or compressor in its pool was closed without error
\* after a use without error.
C22_PooledOnlyAfterCleanClose ==
    /\ \A o \in flateReaderPool : ~heap.fr[o].closeErr /\ ~heap.fr[o].err
    /\ \A o \in flateWriterPool : ~heap.fw[o].closeErr

\* ----------------------------------------------------------------- C25 --
\* C25: with requests served at the same time, the cookie value a request
\* sets is the encoding of its own filter, which is the one its cookie
\* decodes to with its path added; an object a goroutine works with is
\* not in its pool and no other goroutine works with it; and no buffer
\* came out of the pool with content.
C25_PoolsKeepRequestsApart ==
    \A g \in Goroutines :
        /\ AfterPush(g) =>
               gor[g].bloom = AddString(loadBloomFilter(gor[g].cookie), gor[g].path)
        /\ gor[g].value # NoCookie => gor[g].value = EncodeBloom(gor[g].bloom)
        /\ (gor[g].pc = "done" /\ ~gor[g].err) => gor[g].value # NoCookie
        /\ ~gor[g].dirty
        /\ HoldsReader(g) =>
               /\ gor[g].fr \notin flateReaderPool
               /\ \A h \in Goroutines \ {g} : HoldsReader(h) => gor[h].fr # gor[g].fr
        /\ HoldsWriter(g) =>
               /\ gor[g].fw \notin flateWriterPool
               /\ heap.fw[gor[g].fw].dst = gor[g].buf
               /\ \A h \in Goroutines \ {g} : HoldsWriter(h) => gor[h].fw # gor[g].fw
        /\ HoldsBuffer(g) =>
               /\ gor[g].buf \notin bufferPool
               /\ \A h \in Goroutines \ {g} : HoldsBuffer(h) => gor[h].buf # gor[g].buf

\* Two requests that went through the same buffer, compressor and
\* decompressor and set different cookies.
C25_Witness ==
    /\ phase = "pool"
    /\ Len(heap.buf) = 1
    /\ Len(heap.fw) = 1
    /\ Len(heap.fr) = 1
    /\ \A g \in Goroutines :
           /\ gor[g].pc = "done"
           /\ ~gor[g].err
           /\ gor[g].cookie # NoCookie
           /\ gor[g].value = EncodeBloom(gor[g].bloom)
    /\ gor[1].value # gor[2].value

====
